---- MODULE Spec2Model ----
(***************************************************************************)
(* Model of the AP2 server-side request pipeline (ap2.common):             *)
(* BaseServerExecutor.execute / _handle_request / _parse_request /         *)
(* _handle_extensions, FunctionCallResolver.determine_tool_to_use,         *)
(* validate_payment_mandate_signature, message_utils.find_data_part and    *)
(* the watch_log helpers the executor calls.                               *)
(***************************************************************************)
EXTENDS Integers, Sequences, FiniteSets, TLC

(* ------------------------------ bounds -------------------------------- *)
\* longest message (number of parts) a request carries
MaxParts == 2
\* longest tool list an executor is constructed with
MaxTools == 2
\* most task updates one handler invocation emits through the updater
MaxHandlerUpdates == 1
\* most parts in the content of a classification response
MaxResponseParts == 2
\* largest max_retries a RetryingLlmAgent is constructed with
MaxRetries == 3
\* most events one attempt of the underlying LlmAgent run yields
MaxRunEvents == 1
\* most calls made one after the other on a PaymentRemoteA2aClient
MaxCalls == 3
\* most events in the response stream of a peer
MaxStream == 2
\* most calls made on one A2aMessageBuilder
MaxBuilderCalls == 3

(* ----------------------------- constants ------------------------------ *)
None == "None"
\* ap2.common.a2a_extension_utils.EXTENSION_URI (the payment extension)
EXTENSION_URI == "ap2/payment-extension"
OTHER_URI == "example/other-extension"
URIs == {EXTENSION_URI, OTHER_URI}
\* ap2.types.mandate.PAYMENT_MANDATE_DATA_KEY
PAYMENT_MANDATE_DATA_KEY == "ap2.mandates.PaymentMandate"
OTHER_DATA_KEY == "other_key"
\* names (tool.__name__) the registered tools can carry
ToolNames == {"ship", "pay"}
\* a name the classification backend can return that no tool carries
ROGUE_NAME == "not_a_tool"
EMPTY_NAME == ""
UNKNOWN == "Unknown"

(* ------------------------------ messages ------------------------------ *)
\* A text is a sequence of characters, so that str.strip() is computed.
Texts == { <<" ", "a", " ">> }

\* Values a data part holds under PAYMENT_MANDATE_DATA_KEY: JSON null, or an
\* object that has (or lacks) the required contents field and whose
\* user_authorization is null or a signature string.
MandateValues ==
    { [json |-> "null", has_contents |-> FALSE, user_authorization |-> None],
      [json |-> "object", has_contents |-> FALSE, user_authorization |-> None],
      [json |-> "object", has_contents |-> TRUE, user_authorization |-> None],
      [json |-> "object", has_contents |-> TRUE, user_authorization |-> "sig123"] }

OtherValue == [json |-> "object", has_contents |-> FALSE, user_authorization |-> None]

\* A data part is a dict: a function from its keys to values.
DataDicts ==
    { (PAYMENT_MANDATE_DATA_KEY :> v) : v \in MandateValues }
        \cup { (OTHER_DATA_KEY :> OtherValue) }

TextPart(t) == [kind |-> "text", text |-> t]
DataPart(d) == [kind |-> "data", data |-> d]
PartsOf(texts, dicts) == { TextPart(t) : t \in texts } \cup { DataPart(d) : d \in dicts }
Parts == PartsOf(Texts, DataDicts)

SeqsUpTo(S, n) == UNION { [1..k -> S] : k \in 0..n }

\* context.message: None, or a message with an ordered list of parts
NoMessage == [present |-> FALSE, parts |-> <<>>]
MessagesOf(parts, n) ==
    { NoMessage } \cup { [present |-> TRUE, parts |-> p] : p \in SeqsUpTo(parts, n) }
Messages == MessagesOf(Parts, MaxParts)

(* --------------------------- pure functions --------------------------- *)
RECURSIVE SelectParts(_, _)
\* the parts of the given kind, in original order
SelectParts(parts, kind) ==
    IF parts = <<>> THEN <<>>
    ELSE IF Head(parts).kind = kind
         THEN <<Head(parts)>> \o SelectParts(Tail(parts), kind)
         ELSE SelectParts(Tail(parts), kind)

\* a2a.utils.message.get_text_parts: the text of every TextPart, in order
get_text_parts(parts) ==
    LET sel == SelectParts(parts, "text") IN [i \in 1..Len(sel) |-> sel[i].text]

\* a2a.utils.message.get_data_parts: the dict of every DataPart, in order
get_data_parts(parts) ==
    LET sel == SelectParts(parts, "data") IN [i \in 1..Len(sel) |-> sel[i].data]

\* faulty variant of _parse_request: only the first text part is kept
_parse_request_first_text(message) ==
    LET parts == IF message.present THEN message.parts ELSE <<>>
        texts == get_text_parts(parts)
    IN  [text_parts |-> IF texts = <<>> THEN <<>> ELSE <<Head(texts)>>,
         data_parts |-> get_data_parts(parts)]

\* BaseServerExecutor._parse_request
_parse_request(message) ==
    LET parts == IF message.present THEN message.parts ELSE <<>>
    IN  [text_parts |-> get_text_parts(parts), data_parts |-> get_data_parts(parts)]

\* result of a dict lookup that found nothing (Python None)
NotFound == [json |-> "null", has_contents |-> FALSE, user_authorization |-> None]

\* faulty variant of find_data_part: the first dict's value, whatever its key
find_data_part_any_key(data_key, data_parts) ==
    IF data_parts = <<>> THEN NotFound
    ELSE LET first == Head(data_parts)
         IN  first[CHOOSE k \in DOMAIN first : TRUE]

\* faulty variant of find_data_part: value of the last dict containing the key
find_data_part_last(data_key, data_parts) ==
    LET has == { i \in 1..Len(data_parts) : data_key \in DOMAIN data_parts[i] }
    IN  IF has = {} THEN NotFound
        ELSE data_parts[CHOOSE i \in has : \A j \in has : j <= i][data_key]

RECURSIVE find_data_part(_, _)
\* message_utils.find_data_part: value of the first dict containing the key
find_data_part(data_key, data_parts) ==
    IF data_parts = <<>> THEN NotFound
    ELSE IF data_key \in DOMAIN Head(data_parts)
         THEN Head(data_parts)[data_key]
         ELSE find_data_part(data_key, Tail(data_parts))

\* faulty variant of find_data_parts: the search stops at the first value
find_data_parts_first(data_key, data_parts) ==
    LET has == SelectSeq(data_parts, LAMBDA d : data_key \in DOMAIN d)
    IN  IF has = <<>> THEN <<>> ELSE << Head(has)[data_key] >>

\* message_utils.find_data_parts: the values of all dicts containing the key
find_data_parts(data_key, data_parts) ==
    LET has == SelectSeq(data_parts, LAMBDA d : data_key \in DOMAIN d)
    IN  [i \in 1..Len(has) |-> has[i][data_key]]

IsNone(v) == v.json = "null"

\* exceptions: a class and a description (a sequence of strings)
Exc(cls, msg) == [cls |-> cls, msg |-> msg]
NoExc == Exc("none", <<>>)

SchemaError == Exc("ValidationError", <<"payment_mandate_contents: Field required">>)
AuthorizationError == Exc("ValueError", <<"User authorization not found in PaymentMandate.">>)
NegotiationError == Exc("ValueError", <<"Payment extension not activated.">>)
BackendError == Exc("ServerError", <<"classification backend failed">>)
HandlerError == Exc("HandlerError", <<"tool failed">>)
LogSinkError == Exc("FileNotFoundError", <<".logs/watch.log">>)
TerminalStateError == Exc("RuntimeError", <<"Task is already in a terminal state.">>)

\* PaymentMandate.model_validate: the parsed mandate, or a schema error when a
\* required field is missing; user_authorization is optional in the schema.
model_validate(value) ==
    IF value.has_contents
    THEN [exc |-> NoExc, user_authorization |-> value.user_authorization]
    ELSE [exc |-> SchemaError, user_authorization |-> None]

\* faulty variant of validate_payment_mandate_signature: the check is skipped
validate_payment_mandate_signature_skip(payment_mandate) == NoExc

\* validation.validate_payment_mandate_signature: the exception it raises
validate_payment_mandate_signature(payment_mandate) ==
    IF payment_mandate.user_authorization = None THEN AuthorizationError ELSE NoExc

\* faulty variant of MandateGate: the missing payment extension is not an error
MandateGateOpen(activated, data_parts) ==
    LET payment_mandate == find_data_part(PAYMENT_MANDATE_DATA_KEY, data_parts)
    IN  IF EXTENSION_URI \in activated /\ ~IsNone(payment_mandate)
        THEN LET parsed == model_validate(payment_mandate)
             IN  IF parsed.exc # NoExc THEN parsed.exc
                 ELSE validate_payment_mandate_signature(parsed)
        ELSE NoExc

\* execute, lines 82-94: the exception the gate raises (NoExc: it passes)
MandateGate(activated, data_parts) ==
    IF EXTENSION_URI \in activated
    THEN LET payment_mandate == find_data_part(PAYMENT_MANDATE_DATA_KEY, data_parts)
         IN  IF ~IsNone(payment_mandate)
             THEN LET parsed == model_validate(payment_mandate)
                  IN  IF parsed.exc # NoExc THEN parsed.exc
                      ELSE validate_payment_mandate_signature(parsed)
             ELSE NoExc
    ELSE NegotiationError

\* BaseServerExecutor.__init__, lines 55-58
SupportedUris(supported_extensions) ==
    IF supported_extensions.given THEN supported_extensions.uris ELSE {}

\* faulty variant of ActivatedUris: every requested URI is activated
ActivatedUrisAllRequested(requested_uris, supported_uris) == requested_uris

\* _handle_extensions, line 177
ActivatedUris(requested_uris, supported_uris) == requested_uris \cap supported_uris

RECURSIVE LStrip(_)
LStrip(t) == IF t # <<>> /\ Head(t) = " " THEN LStrip(Tail(t)) ELSE t
RECURSIVE RStrip(_)
RStrip(t) ==
    IF t # <<>> /\ t[Len(t)] = " " THEN RStrip(SubSeq(t, 1, Len(t) - 1)) ELSE t
\* str.strip()
Strip(t) == RStrip(LStrip(t))

\* faulty variant of Prompt: the last text part is taken
PromptLast(text_parts) ==
    Strip(IF text_parts # <<>> THEN text_parts[Len(text_parts)] ELSE <<>>)

\* _handle_request, line 134
Prompt(text_parts) == Strip(IF text_parts # <<>> THEN text_parts[1] ELSE <<>>)

(* ---------------------- classification backend ------------------------ *)
\* a response part: with or without a function call
NoCallPart == [has_call |-> FALSE, name |-> EMPTY_NAME]
CallPart(n) == [has_call |-> TRUE, name |-> n]
\* names the backend can put in a function call: one of the functions
\* declared to it (the registered tools), a name that was not declared, or
\* an empty name
BackendNames(registered) == registered \cup {ROGUE_NAME, EMPTY_NAME}
ResponseParts(registered) ==
    { NoCallPart } \cup { CallPart(n) : n \in BackendNames(registered) }

\* generate_content responses: no candidates, a first candidate without
\* content, or a first candidate whose content has 0..MaxResponseParts parts
Responses(registered) ==
    { [candidates |-> 0, has_content |-> FALSE, parts |-> <<>>],
      [candidates |-> 1, has_content |-> FALSE, parts |-> <<>>] }
        \cup { [candidates |-> 1, has_content |-> TRUE, parts |-> p] :
                 p \in SeqsUpTo(ResponseParts(registered), MaxResponseParts) }

RECURSIVE FirstCall(_)
\* lines 78-80: the name of the first part that has a function call
FirstCall(parts) ==
    IF parts = <<>> THEN UNKNOWN
    ELSE IF Head(parts).has_call THEN Head(parts).name
         ELSE FirstCall(Tail(parts))

\* FunctionCallResolver.determine_tool_to_use, lines 73-82
determine_tool_to_use(response) ==
    IF response.candidates > 0 /\ response.has_content /\ response.parts # <<>>
    THEN FirstCall(response.parts)
    ELSE UNKNOWN

\* faulty variant of matching_tools: the filter keeps the tools not named tool_name
matching_tools_others(tool_list, name) ==
    SelectSeq([i \in 1..Len(tool_list) |-> i], LAMBDA i : tool_list[i] # name)

\* faulty variant of matching_tools: the first tool stands in when no tool
\* carries the name
matching_tools_default(tool_list, name) ==
    LET named == SelectSeq([i \in 1..Len(tool_list) |-> i], LAMBDA i : tool_list[i] = name)
    IN  IF named = <<>> /\ tool_list # <<>> THEN <<1>> ELSE named

\* _handle_request, lines 138-140: indices of the tools named tool_name
matching_tools(tool_list, name) ==
    SelectSeq([i \in 1..Len(tool_list) |-> i], LAMBDA i : tool_list[i] = name)

\* faulty variant of DispatchFails: only an empty match is an error
DispatchFailsOnNone(matching) == Len(matching) = 0

\* _handle_request, line 141: the lookup fails unless exactly one tool matches
DispatchFails(matching) == Len(matching) # 1

(* ------------------------------- state -------------------------------- *)
VARIABLES
    supported_extension_uris, \* executor: self._supported_extension_uris
    tools,                    \* executor: self._tools, as the list of tool.__name__
    loggerAttached,           \* watch_log: _logger.handlers is non-empty
    watchLog,                 \* lines written to .logs/watch.log
    reqs,                     \* the requests of this run
    pc,                       \* per request: position in execute
    ctx,                      \* per request: the RequestContext
    text_parts,               \* per request: local of execute
    data_parts,               \* per request: local of execute
    updater,                  \* per request: the TaskUpdater
    events,                   \* per request: task updates put on the event queue
    resolverCalls,            \* per request: prompts given to determine_tool_to_use
    tool_name,                \* per request: local of _handle_request
    invoked,                  \* per request: handler invocations, in order
    caught,                   \* per request: exception caught by _handle_request
    raised,                   \* per request: exception execute raised to its caller
    lookup,                   \* message_utils: one search of a list of data parts
    agent,                    \* RetryingLlmAgent: one run of the agent
    client,                   \* PaymentRemoteA2aClient: the cache and its calls
    builder                   \* A2aMessageBuilder: the message and the calls made

\* the request pipeline: the executor, the watch log and the requests
pipelineVars == << supported_extension_uris, tools, loggerAttached, watchLog, reqs, pc,
                   ctx, text_parts, data_parts, updater, events, resolverCalls,
                   tool_name, invoked, caught, raised >>

\* the helpers around the pipeline, each used by its own specification
helperVars == << lookup, agent, client, builder >>

vars == << pipelineVars, helperVars >>

executorVars == << supported_extension_uris, tools, reqs >>

\* a helper no specification step touches
Unused == [pc |-> "unused"]
HelpersUnused ==
    /\ lookup = Unused
    /\ agent = Unused
    /\ client = Unused
    /\ builder = Unused

\* constructor arguments
SupportedExtensionArgs ==
    { [given |-> FALSE, uris |-> {}] } \cup { [given |-> TRUE, uris |-> u] : u \in SUBSET URIs }
ToolLists == SeqsUpTo(ToolNames, MaxTools)

\* what the transport hands to execute: the message, the requested extension
\* URIs, the correlation ids and the prior task of a continuation
\* correlation ids and prior task: a new conversation, or the continuation
\* of a stored task
Correlations ==
    { [task_id |-> None, context_id |-> None, current_task |-> None],
      [task_id |-> "task-1", context_id |-> "ctx-1", current_task |-> "task-1"] }
ContextsOf(messages, requested, correlations) ==
    { [message |-> m, requested_extensions |-> q, activated_extensions |-> {},
       task_id |-> k.task_id, context_id |-> k.context_id,
       current_task |-> k.current_task] :
        m \in messages, q \in requested, k \in correlations }
Contexts == ContextsOf(Messages, SUBSET URIs, Correlations)

NoContext ==
    [message |-> NoMessage, requested_extensions |-> {}, activated_extensions |-> {},
     task_id |-> None, context_id |-> None, current_task |-> None]

NoUpdater ==
    [created |-> FALSE, task_id |-> None, context_id |-> None,
     guarded |-> FALSE, terminal |-> FALSE]

\* BaseServerExecutor.__init__ has run; no request has been received
InitOf(R, extension_args, tool_lists) ==
    /\ \E se \in extension_args :
          supported_extension_uris = SupportedUris(se)
    /\ tools \in tool_lists
    /\ loggerAttached = FALSE
    /\ watchLog = <<>>
    /\ reqs = R
    /\ pc = [r \in R |-> "start"]
    /\ ctx = [r \in R |-> NoContext]
    /\ text_parts = [r \in R |-> <<>>]
    /\ data_parts = [r \in R |-> <<>>]
    /\ updater = [r \in R |-> NoUpdater]
    /\ events = [r \in R |-> <<>>]
    /\ resolverCalls = [r \in R |-> <<>>]
    /\ tool_name = [r \in R |-> None]
    /\ invoked = [r \in R |-> <<>>]
    /\ caught = [r \in R |-> NoExc]
    /\ raised = [r \in R |-> NoExc]

InitWith(R) == InitOf(R, SupportedExtensionArgs, ToolLists)

\* one request at a time
Requests == {1}

Init == InitWith(Requests) /\ HelpersUnused

(* ------------------------------ watch log ----------------------------- *)
RECURSIVE SetToSeq(_)
SetToSeq(S) == IF S = {} THEN <<>> ELSE LET x == CHOOSE y \in S : TRUE
                                        IN  <<x>> \o SetToSeq(S \ {x})

RECURSIVE Flatten(_)
\* the concatenation of a sequence of sequences
Flatten(xss) == IF xss = <<>> THEN <<>> ELSE Head(xss) \o Flatten(Tail(xss))

\* watch_log.log_a2a_request_extensions: the lines it logs
ExtensionLogLines(context) ==
    IF context.activated_extensions = {} THEN <<>>
    ELSE << [heading |-> "[A2A Extensions Activated in the Request]",
             extensions |-> context.requested_extensions] >>

\* watch_log._log_request_instructions
InstructionLogLines(texts) ==
    << [heading |-> "[Request Instructions]", text_parts |-> texts] >>

\* watch_log._log_mandates
MandateLogLines(datas) ==
    LET OfKey(d, k) == IF k = PAYMENT_MANDATE_DATA_KEY
                       THEN << [heading |-> "[A Payment Mandate was in the request Data]",
                                value |-> d[k]] >>
                       ELSE <<>>
        OfDict(d) == LET keys == SetToSeq(DOMAIN d)
                     IN  Flatten([i \in 1..Len(keys) |-> OfKey(d, keys[i])])
    IN  Flatten([i \in 1..Len(datas) |-> OfDict(datas[i])])

\* watch_log._log_extra_data
ExtraDataLogLines(datas) ==
    LET OfKey(d, k) == IF k = PAYMENT_MANDATE_DATA_KEY
                       THEN <<>>
                       ELSE << [heading |-> "[Data Part: %s]", key |-> k, value |-> d[k]] >>
        OfDict(d) == LET keys == SetToSeq(DOMAIN d)
                     IN  Flatten([i \in 1..Len(keys) |-> OfKey(d, keys[i])])
    IN  Flatten([i \in 1..Len(datas) |-> OfDict(datas[i])])

\* _logger.info: lines reach watch.log only through an attached file handler
Logged(attached, log, lines) == IF attached THEN log \o lines ELSE log

(* ------------------------------ actions ------------------------------- *)
\* execute, lines 75-77: the transport calls execute with a RequestContext;
\* the requested extensions are logged and the message is parsed
Begin(r, C) ==
    /\ pc[r] = "start"
    /\ \E context \in C :
          LET parsed == _parse_request(context.message) IN
          /\ ctx' = [ctx EXCEPT ![r] = context]
          /\ watchLog' = Logged(loggerAttached, watchLog, ExtensionLogLines(context))
          /\ text_parts' = [text_parts EXCEPT ![r] = parsed.text_parts]
          /\ data_parts' = [data_parts EXCEPT ![r] = parsed.data_parts]
    /\ pc' = [pc EXCEPT ![r] = "log_parts"]
    /\ UNCHANGED << helperVars, executorVars, loggerAttached, updater, events, resolverCalls,
                    tool_name, invoked, caught, raised >>

\* execute, line 78: watch_log.log_a2a_message_parts. _load_logger attaches
\* the file handler on first use; opening .logs/watch.log can fail.
LogMessageParts(r) ==
    /\ pc[r] = "log_parts"
    /\ \E opened \in BOOLEAN :
          IF ~loggerAttached /\ ~opened
          THEN /\ raised' = [raised EXCEPT ![r] = LogSinkError]
               /\ pc' = [pc EXCEPT ![r] = "done"]
               /\ UNCHANGED << loggerAttached, watchLog >>
          ELSE /\ loggerAttached' = TRUE
               /\ watchLog' = watchLog \o InstructionLogLines(text_parts[r])
                                \o MandateLogLines(data_parts[r])
                                \o ExtraDataLogLines(data_parts[r])
               /\ pc' = [pc EXCEPT ![r] = "extensions"]
               /\ UNCHANGED raised
    /\ UNCHANGED << helperVars, executorVars, ctx, text_parts, data_parts, updater, events,
                    resolverCalls, tool_name, invoked, caught >>

\* faulty variant of HandleExtensions: the activated URIs are kept in state
\* that all requests of the executor share
HandleExtensionsShared(r) ==
    /\ pc[r] = "extensions"
    /\ ctx' = [q \in reqs |->
                 [ctx[q] EXCEPT !.activated_extensions =
                     @ \cup ActivatedUris(ctx[r].requested_extensions,
                                          supported_extension_uris)]]
    /\ pc' = [pc EXCEPT ![r] = "gate"]
    /\ UNCHANGED << helperVars, executorVars, loggerAttached, watchLog, text_parts, data_parts,
                    updater, events, resolverCalls, tool_name, invoked, caught, raised >>

\* execute, line 80: _handle_extensions adds every requested and supported
\* URI to the activated set of the request context
HandleExtensions(r) ==
    /\ pc[r] = "extensions"
    /\ ctx' = [ctx EXCEPT ![r].activated_extensions =
                  @ \cup ActivatedUris(ctx[r].requested_extensions, supported_extension_uris)]
    /\ pc' = [pc EXCEPT ![r] = "gate"]
    /\ UNCHANGED << helperVars, executorVars, loggerAttached, watchLog, text_parts, data_parts,
                    updater, events, resolverCalls, tool_name, invoked, caught, raised >>

\* faulty variant of Gate: the gate takes the payment extension out of the
\* activated set once it has checked it
GateDeactivates(r) ==
    /\ pc[r] = "gate"
    /\ LET exc == MandateGate(ctx[r].activated_extensions, data_parts[r]) IN
          IF exc # NoExc
          THEN /\ raised' = [raised EXCEPT ![r] = exc]
               /\ pc' = [pc EXCEPT ![r] = "done"]
          ELSE /\ pc' = [pc EXCEPT ![r] = "updater"]
               /\ UNCHANGED raised
    /\ ctx' = [ctx EXCEPT ![r].activated_extensions = @ \ {EXTENSION_URI}]
    /\ UNCHANGED << helperVars, executorVars, loggerAttached, watchLog, text_parts, data_parts,
                    updater, events, resolverCalls, tool_name, invoked, caught >>

\* faulty variant of Gate: an exception of the gate does not stop the request
GateContinues(r) ==
    /\ pc[r] = "gate"
    /\ pc' = [pc EXCEPT ![r] = "updater"]
    /\ UNCHANGED << helperVars, executorVars, loggerAttached, watchLog, ctx, text_parts, data_parts,
                    updater, events, resolverCalls, tool_name, invoked, caught, raised >>

\* execute, lines 82-94: the extension gate and the mandate validation; an
\* exception raised here leaves execute
Gate(r) ==
    /\ pc[r] = "gate"
    /\ LET exc == MandateGate(ctx[r].activated_extensions, data_parts[r]) IN
          IF exc # NoExc
          THEN /\ raised' = [raised EXCEPT ![r] = exc]
               /\ pc' = [pc EXCEPT ![r] = "done"]
          ELSE /\ pc' = [pc EXCEPT ![r] = "updater"]
               /\ UNCHANGED raised
    /\ UNCHANGED << helperVars, executorVars, loggerAttached, watchLog, ctx, text_parts, data_parts,
                    updater, events, resolverCalls, tool_name, invoked, caught >>

\* uuid.uuid4() for a missing id
FreshTaskId(r) == "uuid-task"
FreshContextId(r) == "uuid-ctx"

\* faulty variant of CreateUpdater: the updater always gets generated ids
CreateUpdaterFresh(r) ==
    /\ pc[r] = "updater"
    /\ \E g \in BOOLEAN :
          updater' = [updater EXCEPT ![r] =
              [created |-> TRUE, task_id |-> FreshTaskId(r),
               context_id |-> FreshContextId(r), guarded |-> g, terminal |-> FALSE]]
    /\ pc' = [pc EXCEPT ![r] = "resolve"]
    /\ UNCHANGED << helperVars, executorVars, loggerAttached, watchLog, ctx, text_parts,
                    data_parts, events, resolverCalls, tool_name, invoked, caught, raised >>

\* execute, lines 96-106: the TaskUpdater of the request. Whether the
\* updater rejects an update after a terminal one depends on the a2a release.
CreateUpdater(r) ==
    /\ pc[r] = "updater"
    /\ \E g \in BOOLEAN :
          updater' = [updater EXCEPT ![r] =
              [created |-> TRUE,
               task_id |-> IF ctx[r].task_id # None THEN ctx[r].task_id ELSE FreshTaskId(r),
               context_id |-> IF ctx[r].context_id # None THEN ctx[r].context_id
                              ELSE FreshContextId(r),
               guarded |-> g, terminal |-> FALSE]]
    /\ pc' = [pc EXCEPT ![r] = "resolve"]
    /\ UNCHANGED << helperVars, executorVars, loggerAttached, watchLog, ctx, text_parts, data_parts,
                    events, resolverCalls, tool_name, invoked, caught, raised >>

\* _handle_request, lines 134-136: the prompt is resolved to a tool name by
\* the classification backend, which answers with any response or raises
Resolve(r) ==
    /\ pc[r] = "resolve"
    /\ resolverCalls' = [resolverCalls EXCEPT ![r] = Append(@, Prompt(text_parts[r]))]
    /\ \/ /\ caught' = [caught EXCEPT ![r] = BackendError]
          /\ pc' = [pc EXCEPT ![r] = "except"]
          /\ UNCHANGED tool_name
       \/ \E response \in Responses({ tools[i] : i \in 1..Len(tools) }) :
             /\ tool_name' = [tool_name EXCEPT ![r] = determine_tool_to_use(response)]
             /\ pc' = [pc EXCEPT ![r] = "lookup"]
             /\ UNCHANGED caught
    /\ UNCHANGED << helperVars, executorVars, loggerAttached, watchLog, ctx, text_parts, data_parts,
                    updater, events, invoked, raised >>

LookupError(name, n) ==
    Exc("ValueError", <<"Expected 1 tool matching ", name, ", got ", ToString(n)>>)

\* _handle_request, lines 138-146: exactly one tool must carry the resolved
\* name; that tool is called with the data parts, the updater and the task
Lookup(r) ==
    /\ pc[r] = "lookup"
    /\ LET matching == matching_tools(tools, tool_name[r]) IN
          IF DispatchFails(matching)
          THEN /\ caught' = [caught EXCEPT ![r] = LookupError(tool_name[r], Len(matching))]
               /\ pc' = [pc EXCEPT ![r] = "except"]
               /\ UNCHANGED invoked
          ELSE /\ invoked' = [invoked EXCEPT ![r] = Append(@,
                      [tool |-> matching[1], name |-> tools[matching[1]],
                       data_parts |-> data_parts[r],
                       task_id |-> updater[r].task_id,
                       context_id |-> updater[r].context_id,
                       current_task |-> ctx[r].current_task])]
               /\ pc' = [pc EXCEPT ![r] = "handler"]
               /\ UNCHANGED caught
    /\ UNCHANGED << helperVars, executorVars, loggerAttached, watchLog, ctx, text_parts, data_parts,
                    updater, events, resolverCalls, tool_name, raised >>

TerminalStates == {"completed", "failed"}
HandlerStates == {"working"} \cup TerminalStates

TaskUpdate(r, state, by, text) ==
    [state |-> state, by |-> by, text |-> text,
     task_id |-> updater[r].task_id, context_id |-> updater[r].context_id]

ByHandler(evs) == SelectSeq(evs, LAMBDA e : e.by = "handler")
ByDispatcher(evs) == SelectSeq(evs, LAMBDA e : e.by = "dispatcher")
InState(evs, state) == SelectSeq(evs, LAMBDA e : e.state = state)

\* the running tool reports through the updater (TaskUpdater.update_status);
\* a guarded updater raises once a terminal state has been reported
HandlerUpdate(r) ==
    /\ pc[r] = "handler"
    /\ Len(ByHandler(events[r])) < MaxHandlerUpdates
    /\ \E state \in HandlerStates :
          IF updater[r].guarded /\ updater[r].terminal
          THEN /\ caught' = [caught EXCEPT ![r] = TerminalStateError]
               /\ pc' = [pc EXCEPT ![r] = "except"]
               /\ UNCHANGED << events, updater >>
          ELSE /\ events' = [events EXCEPT ![r] =
                      Append(@, TaskUpdate(r, state, "handler", <<>>))]
               /\ updater' = [updater EXCEPT ![r].terminal = @ \/ state \in TerminalStates]
               /\ UNCHANGED << caught, pc >>
    /\ UNCHANGED << helperVars, executorVars, loggerAttached, watchLog, ctx, text_parts, data_parts,
                    resolverCalls, tool_name, invoked, raised >>

\* faulty variant of HandlerReturn: the dispatcher completes the task itself
HandlerReturnCompletes(r) ==
    /\ pc[r] = "handler"
    /\ events' = [events EXCEPT ![r] =
           Append(@, TaskUpdate(r, "completed", "dispatcher", <<>>))]
    /\ updater' = [updater EXCEPT ![r].terminal = TRUE]
    /\ pc' = [pc EXCEPT ![r] = "done"]
    /\ UNCHANGED << helperVars, executorVars, loggerAttached, watchLog, ctx, text_parts, data_parts,
                    resolverCalls, tool_name, invoked, caught, raised >>

\* line 146: the awaited tool returns; _handle_request and execute return
HandlerReturn(r) ==
    /\ pc[r] = "handler"
    /\ pc' = [pc EXCEPT ![r] = "done"]
    /\ UNCHANGED << helperVars, executorVars, loggerAttached, watchLog, ctx, text_parts, data_parts,
                    updater, events, resolverCalls, tool_name, invoked, caught, raised >>

\* line 146: the awaited tool raises
HandlerRaise(r) ==
    /\ pc[r] = "handler"
    /\ caught' = [caught EXCEPT ![r] = HandlerError]
    /\ pc' = [pc EXCEPT ![r] = "except"]
    /\ UNCHANGED << helperVars, executorVars, loggerAttached, watchLog, ctx, text_parts, data_parts,
                    updater, events, resolverCalls, tool_name, invoked, raised >>

\* line 150: the text of the failure message
ErrorText(e) == <<"An error occurred: ">> \o e.msg

\* faulty variant of Except: a failed backend call is tried once more
ExceptRetries(r) ==
    /\ pc[r] = "except"
    /\ IF caught[r] = BackendError /\ Len(resolverCalls[r]) < 2
       THEN /\ pc' = [pc EXCEPT ![r] = "resolve"]
            /\ UNCHANGED << events, updater, raised >>
       ELSE /\ events' = [events EXCEPT ![r] =
                   Append(@, TaskUpdate(r, "failed", "dispatcher", ErrorText(caught[r])))]
            /\ updater' = [updater EXCEPT ![r].terminal = TRUE]
            /\ pc' = [pc EXCEPT ![r] = "done"]
            /\ UNCHANGED raised
    /\ UNCHANGED << helperVars, executorVars, loggerAttached, watchLog, ctx, text_parts, data_parts,
                    resolverCalls, tool_name, invoked, caught >>

\* _handle_request, lines 148-152: the caught exception is reported as a
\* failed task; updater.failed raises on a guarded updater that is terminal
Except(r) ==
    /\ pc[r] = "except"
    /\ IF updater[r].guarded /\ updater[r].terminal
       THEN /\ raised' = [raised EXCEPT ![r] = TerminalStateError]
            /\ UNCHANGED << events, updater >>
       ELSE /\ events' = [events EXCEPT ![r] =
                   Append(@, TaskUpdate(r, "failed", "dispatcher", ErrorText(caught[r])))]
            /\ updater' = [updater EXCEPT ![r].terminal = TRUE]
            /\ UNCHANGED raised
    /\ pc' = [pc EXCEPT ![r] = "done"]
    /\ UNCHANGED << helperVars, executorVars, loggerAttached, watchLog, ctx, text_parts, data_parts,
                    resolverCalls, tool_name, invoked, caught >>

\* the steps of request r, whose context the transport draws from C
Step(r, C) ==
    \/ Begin(r, C)
    \/ LogMessageParts(r)
    \/ HandleExtensions(r)
    \/ Gate(r)
    \/ CreateUpdater(r)
    \/ Resolve(r)
    \/ Lookup(r)
    \/ HandlerUpdate(r)
    \/ HandlerReturn(r)
    \/ HandlerRaise(r)
    \/ Except(r)

Next == \E r \in Requests : Step(r, Contexts)

Spec == Init /\ [][Next]_vars


(* ---------------- an executor with a tool named "Unknown" ------------- *)
\* a tool function may carry any name, also the name of the sentinel
SentinelToolLists == SeqsUpTo(ToolNames \cup {UNKNOWN}, MaxTools)
SentinelContexts ==
    ContextsOf(MessagesOf(PartsOf(Texts, {}), 1), {{EXTENSION_URI}, {}}, Correlations)
SentinelInit ==
    InitOf(Requests, SupportedExtensionArgs, SentinelToolLists) /\ HelpersUnused
SentinelNext == \E r \in Requests : Step(r, SentinelContexts)
SentinelSpec == SentinelInit /\ [][SentinelNext]_vars

(* ------------------- messages with different texts -------------------- *)
ParseTexts == { <<"a">>, <<" ", "b", " ">>, <<" ", "c", " ", "d">>, <<" ">> }
ParseDicts ==
    { (OTHER_DATA_KEY :> OtherValue),
      (PAYMENT_MANDATE_DATA_KEY :>
          [json |-> "object", has_contents |-> TRUE, user_authorization |-> "sig123"]) }
ParseContexts ==
    ContextsOf(MessagesOf(PartsOf(ParseTexts, ParseDicts), MaxParts + 1),
               {{EXTENSION_URI}, {}}, Correlations)
ParseInit ==
    /\ InitOf(Requests, {[given |-> TRUE, uris |-> {EXTENSION_URI}]}, {<<"ship">>})
    /\ HelpersUnused
ParseNext == \E r \in Requests : Step(r, ParseContexts)
ParseSpec == ParseInit /\ [][ParseNext]_vars

(* ------------------- two requests on one executor --------------------- *)
\* the event loop interleaves the requests at their awaits
ConcurrentRequests == {1, 2}
ConcurrentContexts ==
    ContextsOf({ NoMessage,
                 [present |-> TRUE, parts |-> <<TextPart(<<" ", "a", " ">>)>>],
                 [present |-> TRUE, parts |->
                     <<DataPart(PAYMENT_MANDATE_DATA_KEY :>
                         [json |-> "object", has_contents |-> TRUE,
                          user_authorization |-> None])>>] },
               {{EXTENSION_URI}, {OTHER_URI}},
               {[task_id |-> None, context_id |-> None, current_task |-> None]})
ConcurrentInit ==
    /\ InitOf(ConcurrentRequests,
              {[given |-> TRUE, uris |-> {EXTENSION_URI}], [given |-> TRUE, uris |-> URIs]},
              {<<"ship">>})
    /\ HelpersUnused
ConcurrentNext == \E r \in ConcurrentRequests : Step(r, ConcurrentContexts)
ConcurrentSpec == ConcurrentInit /\ [][ConcurrentNext]_vars


(* ------------- requests with and without correlation ids -------------- *)
\* the transport supplies each of task_id and context_id or leaves it out
AllCorrelations ==
    { [task_id |-> t, context_id |-> c, current_task |-> k] :
        t \in {None, "task-1"}, c \in {None, "ctx-1"}, k \in {None, "task-1"} }
CorrelationContexts ==
    ContextsOf({ NoMessage,
                 [present |-> TRUE, parts |-> <<TextPart(<<" ", "a", " ">>)>>],
                 [present |-> TRUE, parts |->
                     <<DataPart(PAYMENT_MANDATE_DATA_KEY :>
                         [json |-> "object", has_contents |-> TRUE,
                          user_authorization |-> None])>>] },
               {{EXTENSION_URI}, {}}, AllCorrelations)
CorrelationInit ==
    /\ InitOf(Requests, {[given |-> TRUE, uris |-> {EXTENSION_URI}]}, {<<"ship">>, <<>>})
    /\ HelpersUnused
CorrelationNext == \E r \in Requests : Step(r, CorrelationContexts)
CorrelationSpec == CorrelationInit /\ [][CorrelationNext]_vars

(* ============================ message_utils =========================== *)
\* the arguments of a search: a key, and dicts with one or two keys
ABSENT_DATA_KEY == "absent_key"
LookupDicts ==
    DataDicts \cup { [k \in {PAYMENT_MANDATE_DATA_KEY, OTHER_DATA_KEY} |->
                        IF k = OTHER_DATA_KEY THEN OtherValue ELSE v] : v \in MandateValues }
LookupInit ==
    /\ InitOf(Requests, {[given |-> FALSE, uris |-> {}]}, {<<>>})
    /\ agent = Unused
    /\ client = Unused
    /\ builder = Unused
    /\ \E k \in {PAYMENT_MANDATE_DATA_KEY, OTHER_DATA_KEY, ABSENT_DATA_KEY},
          dp \in SeqsUpTo(LookupDicts, MaxParts) :
          lookup = [pc |-> "ready", data_key |-> k, data_parts |-> dp,
                    part_called |-> FALSE, part |-> NotFound,
                    parts_called |-> FALSE, parts |-> <<>>]

\* a caller applies find_data_part to the key and the data parts
FindDataPart ==
    /\ lookup.pc = "ready"
    /\ ~lookup.part_called
    /\ lookup' = [lookup EXCEPT !.part_called = TRUE,
                                !.part = find_data_part(lookup.data_key, lookup.data_parts)]
    /\ UNCHANGED << pipelineVars, agent, client, builder >>

\* a caller applies find_data_parts to the key and the data parts
FindDataParts ==
    /\ lookup.pc = "ready"
    /\ ~lookup.parts_called
    /\ lookup' = [lookup EXCEPT !.parts_called = TRUE,
                                !.parts = find_data_parts(lookup.data_key, lookup.data_parts)]
    /\ UNCHANGED << pipelineVars, agent, client, builder >>

LookupNext == FindDataPart \/ FindDataParts
LookupSpec == LookupInit /\ [][LookupNext]_vars


(* ======================= PaymentRemoteA2aClient ======================= *)
\* the cards the peer serves; it may serve another one at a later resolution
AgentCards == {"card-1", "card-2"}

\* what Client.send_message yields: a ClientEvent tuple (Task, update), or a
\* Message
TupleEvent(task) == [kind |-> "tuple", task |-> task]
\* no Task: the None of ClientTaskManager.get_task
NoTask == [id |-> None, state |-> None]
MessageEvent == [kind |-> "message", task |-> NoTask]
Streams ==
    SeqsUpTo({ TupleEvent([id |-> "t1", state |-> s]) : s \in {"working", "completed"} }
                \cup { MessageEvent },
             MaxStream)
ShortStreams == { <<>>, << TupleEvent([id |-> "t1", state |-> "completed"]) >> }

NoResponseError == Exc("RuntimeError", <<"No response from ", "peer">>)

NoCall ==
    [pc |-> "idle", op |-> None, contacted |-> "no", card |-> None, strict |-> FALSE,
     stream |-> <<>>, remaining |-> <<>>, processed |-> <<>>, manager |-> NoTask,
     returned |-> None, result |-> NoTask, raised |-> NoExc]

\* __init__, lines 27-52: the cache is empty; no call has been made
ClientInit(ids) ==
    /\ InitOf(Requests, {[given |-> FALSE, uris |-> {}]}, {<<>>})
    /\ lookup = Unused
    /\ agent = Unused
    /\ builder = Unused
    /\ client = [pc |-> "ready", agent_card |-> None, resolver_calls |-> 0,
                 calls |-> [c \in ids |-> NoCall]]

\* a caller calls get_agent_card or send_a2a_message, once the calls in
\* `before` have ended; whether the ClientTaskManager of a send rejects a
\* second Task depends on the a2a release
CallStart(c, before, streams) ==
    /\ client.calls[c].pc = "idle"
    /\ \A j \in before : client.calls[j].pc = "done"
    /\ \/ client' = [client EXCEPT !.calls[c].pc = "check",
                                   !.calls[c].op = "get_agent_card"]
       \/ \E st \in streams, strict \in BOOLEAN :
             client' = [client EXCEPT !.calls[c].pc = "check",
                                      !.calls[c].op = "send_a2a_message",
                                      !.calls[c].stream = st,
                                      !.calls[c].strict = strict]
    /\ UNCHANGED << pipelineVars, lookup, agent, builder >>

\* faulty variant of GetAgentCard: the card is resolved on every call
GetAgentCardUncached(c) ==
    /\ client.calls[c].pc = "check"
    /\ client' = [client EXCEPT !.resolver_calls = @ + 1,
                                !.calls[c].pc = "resolving",
                                !.calls[c].contacted = "pending"]
    /\ UNCHANGED << pipelineVars, lookup, agent, builder >>

\* get_agent_card, lines 56-61: with an empty cache the resolver is invoked
\* and awaited; otherwise the cached card is returned (line 62)
GetAgentCard(c) ==
    /\ client.calls[c].pc = "check"
    /\ IF client.agent_card = None
       THEN client' = [client EXCEPT !.resolver_calls = @ + 1,
                                     !.calls[c].pc = "resolving",
                                     !.calls[c].contacted = "pending"]
       ELSE client' = [client EXCEPT !.calls[c].pc = "carded",
                                     !.calls[c].card = client.agent_card]
    /\ UNCHANGED << pipelineVars, lookup, agent, builder >>

\* lines 61-62: the awaited resolution returns a card, which is cached and
\* returned
ResolverReturn(c) ==
    /\ client.calls[c].pc = "resolving"
    /\ \E card \in AgentCards :
          client' = [client EXCEPT !.agent_card = card,
                                   !.calls[c].pc = "carded",
                                   !.calls[c].contacted = "ok",
                                   !.calls[c].card = card]
    /\ UNCHANGED << pipelineVars, lookup, agent, builder >>

\* line 61: the awaited resolution raises; nothing is assigned
ResolverRaise(c) ==
    /\ client.calls[c].pc = "resolving"
    /\ client' = [client EXCEPT !.calls[c].pc = "done",
                                !.calls[c].contacted = "raised",
                                !.calls[c].raised =
                                    Exc("A2AClientHTTPError", <<"agent card not available">>)]
    /\ UNCHANGED << pipelineVars, lookup, agent, builder >>

\* line 62, for a caller of get_agent_card: the card is the result
ReturnCard(c) ==
    /\ client.calls[c].pc = "carded"
    /\ client.calls[c].op = "get_agent_card"
    /\ client' = [client EXCEPT !.calls[c].pc = "done",
                                !.calls[c].returned = client.calls[c].card]
    /\ UNCHANGED << pipelineVars, lookup, agent, builder >>

\* send_a2a_message, lines 68-72, and _get_a2a_client, lines 92-96: the A2A
\* client is created from the card, a new ClientTaskManager is made and the
\* message is sent
SendMessage(c) ==
    /\ client.calls[c].pc = "carded"
    /\ client.calls[c].op = "send_a2a_message"
    /\ client' = [client EXCEPT !.calls[c].pc = "streaming",
                                !.calls[c].remaining = client.calls[c].stream]
    /\ UNCHANGED << pipelineVars, lookup, agent, builder >>

\* lines 72-77: the next event of the stream; of a tuple the Task is taken;
\* the task manager keeps a Task and passes a Message by
ProcessEvent(c) ==
    /\ client.calls[c].pc = "streaming"
    /\ client.calls[c].remaining # <<>>
    /\ LET event == Head(client.calls[c].remaining) IN
          IF event.kind = "tuple" /\ client.calls[c].strict
                                  /\ client.calls[c].manager # NoTask
          THEN client' = [client EXCEPT !.calls[c].pc = "done",
                                        !.calls[c].raised =
                              Exc("A2AClientInvalidArgsError", <<"Task is already set">>)]
          ELSE client' = [client EXCEPT
                   !.calls[c].remaining = Tail(@),
                   !.calls[c].processed = Append(@, event),
                   !.calls[c].manager = IF event.kind = "tuple" THEN event.task ELSE @]
    /\ UNCHANGED << pipelineVars, lookup, agent, builder >>

\* line 72: the stream breaks instead of delivering its next event
StreamRaise(c) ==
    /\ client.calls[c].pc = "streaming"
    /\ client.calls[c].remaining # <<>>
    /\ client' = [client EXCEPT !.calls[c].pc = "done",
                                !.calls[c].raised =
                                    Exc("A2AClientHTTPError", <<"response stream broken">>)]
    /\ UNCHANGED << pipelineVars, lookup, agent, builder >>

\* faulty variant of StreamEnd: the task of the manager is returned as it is
StreamEndReturnsNone(c) ==
    /\ client.calls[c].pc = "streaming"
    /\ client.calls[c].remaining = <<>>
    /\ client' = [client EXCEPT !.calls[c].pc = "done",
                                !.calls[c].result = client.calls[c].manager]
    /\ UNCHANGED << pipelineVars, lookup, agent, builder >>

\* lines 79-88: the stream has ended; the task of the manager is returned,
\* and RuntimeError is raised when there is none
StreamEnd(c) ==
    /\ client.calls[c].pc = "streaming"
    /\ client.calls[c].remaining = <<>>
    /\ IF client.calls[c].manager = NoTask
       THEN client' = [client EXCEPT !.calls[c].pc = "done",
                                     !.calls[c].raised = NoResponseError]
       ELSE client' = [client EXCEPT !.calls[c].pc = "done",
                                     !.calls[c].result = client.calls[c].manager]
    /\ UNCHANGED << pipelineVars, lookup, agent, builder >>

\* the steps of call c
CallStep(c, before, streams) ==
    \/ CallStart(c, before, streams)
    \/ GetAgentCard(c)
    \/ ResolverReturn(c)
    \/ ResolverRaise(c)
    \/ ReturnCard(c)
    \/ SendMessage(c)
    \/ ProcessEvent(c)
    \/ StreamRaise(c)
    \/ StreamEnd(c)

\* calls made one after the other
SequentialCalls == 1..MaxCalls
SequentialInit == ClientInit(SequentialCalls)
SequentialNext == \E c \in SequentialCalls : CallStep(c, 1..(c - 1), ShortStreams)
SequentialSpec == SequentialInit /\ [][SequentialNext]_vars

\* two calls in flight at once, suspended at their awaits
ConcurrentCalls == {1, 2}
ConcurrentCallsInit == ClientInit(ConcurrentCalls)
ConcurrentCallsNext == \E c \in ConcurrentCalls : CallStep(c, {}, ShortStreams)
ConcurrentCallsSpec == ConcurrentCallsInit /\ [][ConcurrentCallsNext]_vars

\* one send_a2a_message call over every response stream
StreamCalls == {1}
StreamInit == ClientInit(StreamCalls)
StreamNext == \E c \in StreamCalls : CallStep(c, {}, Streams)
StreamSpec == StreamInit /\ [][StreamNext]_vars

(* ========================== A2aMessageBuilder ========================== *)
\* the values of add_data's `data: str | dict[str, Any]`
Str(text) == [type |-> "str", text |-> text, entries |-> {}]
Dict(entries) == [type |-> "dict", text |-> "", entries |-> entries]
BuilderData == { Str(""), Str("s"), Dict({}), Dict({ << "a", Str("1") >> }) }
\* "" stands for no key: `if key` is false for it as for None
BuilderKeys == { "", "k" }

\* `not data`, line 45
IsEmptyData(data) ==
    \/ data.type = "str" /\ data.text = ""
    \/ data.type = "dict" /\ data.entries = {}

\* lines 48-50
NestedData(key, data) == IF key # "" THEN Dict({ << key, data >> }) ELSE data

TextPartOf(text) == [kind |-> "text", text |-> text, data |-> Dict({})]
DataPartOf(data) == [kind |-> "data", text |-> "", data |-> data]


\* _create_base_message, lines 70-76
BaseMessage ==
    [message_id |-> "uuid-1", parts |-> <<>>, role |-> "agent",
     context_id |-> None, task_id |-> None]

\* __init__, lines 12-13; `calls` records the calls made so far
BuilderInit ==
    /\ InitOf(Requests, {[given |-> FALSE, uris |-> {}]}, {<<>>})
    /\ lookup = Unused
    /\ agent = Unused
    /\ client = Unused
    /\ builder = [pc |-> "ready", message |-> BaseMessage, calls |-> <<>>,
                  built |-> FALSE]

BuilderCall(op, key, data, exc) ==
    [op |-> op, key |-> key, data |-> data, raised |-> exc]

\* add_text, lines 24-26
AddText ==
    /\ builder.pc = "ready"
    /\ Len(builder.calls) < MaxBuilderCalls
    /\ \E text \in { "", "hi" } :
          builder' = [builder EXCEPT
              !.message.parts = Append(@, TextPartOf(text)),
              !.calls = Append(@, BuilderCall("add_text", "", Str(text), NoExc))]
    /\ UNCHANGED << pipelineVars, lookup, agent, client >>

\* faulty variant of AddData: the key is ignored
AddDataUnkeyed ==
    /\ builder.pc = "ready"
    /\ Len(builder.calls) < MaxBuilderCalls
    /\ \E key \in BuilderKeys, data \in BuilderData :
          builder' = [builder EXCEPT
              !.message.parts = IF IsEmptyData(data) THEN @
                                ELSE Append(@, DataPartOf(data)),
              !.calls = Append(@, BuilderCall("add_data", key, data, NoExc))]
    /\ UNCHANGED << pipelineVars, lookup, agent, client >>

\* add_data, lines 45-54; a2a's DataPart declares data as a dictionary, so
\* for a str without a key its construction (line 52) either raises, before
\* anything is appended, or keeps the str, by the a2a release
AddData ==
    /\ builder.pc = "ready"
    /\ Len(builder.calls) < MaxBuilderCalls
    /\ \E key \in BuilderKeys, data \in BuilderData :
          IF IsEmptyData(data)
          THEN builder' = [builder EXCEPT
                  !.calls = Append(@, BuilderCall("add_data", key, data, NoExc))]
          ELSE \/ builder' = [builder EXCEPT
                      !.message.parts = Append(@, DataPartOf(NestedData(key, data))),
                      !.calls = Append(@, BuilderCall("add_data", key, data, NoExc))]
               \/ /\ NestedData(key, data).type # "dict"
                  /\ builder' = [builder EXCEPT
                         !.calls = Append(@,
                            BuilderCall("add_data", key, data,
                                Exc("ValidationError",
                                    <<"DataPart.data: not a dictionary">>)))]
    /\ UNCHANGED << pipelineVars, lookup, agent, client >>

\* set_context_id, lines 58-59
SetContextId ==
    /\ builder.pc = "ready"
    /\ Len(builder.calls) < MaxBuilderCalls
    /\ \E id \in { "ctx-1", "ctx-2" } :
          builder' = [builder EXCEPT
              !.message.context_id = id,
              !.calls = Append(@, BuilderCall("set_context_id", "", Str(id), NoExc))]
    /\ UNCHANGED << pipelineVars, lookup, agent, client >>

\* set_task_id, lines 63-64
SetTaskId ==
    /\ builder.pc = "ready"
    /\ Len(builder.calls) < MaxBuilderCalls
    /\ \E id \in { "task-1", "task-2" } :
          builder' = [builder EXCEPT
              !.message.task_id = id,
              !.calls = Append(@, BuilderCall("set_task_id", "", Str(id), NoExc))]
    /\ UNCHANGED << pipelineVars, lookup, agent, client >>

\* build, line 68: the message of the builder itself is returned, so the
\* built message is builder.message from then on
Build ==
    /\ builder.pc = "ready"
    /\ Len(builder.calls) < MaxBuilderCalls
    /\ builder' = [builder EXCEPT
           !.built = TRUE,
           !.calls = Append(@, BuilderCall("build", "", Str(""), NoExc))]
    /\ UNCHANGED << pipelineVars, lookup, agent, client >>

BuilderNext ==
    \/ AddText
    \/ AddData
    \/ SetContextId
    \/ SetTaskId
    \/ Build
BuilderSpec == BuilderInit /\ [][BuilderNext]_vars

(* ========================== RetryingLlmAgent ========================== *)
\* retrying_llm_agent.py line 12: the default of max_retries
DEFAULT_MAX_RETRIES == 1
RETRYING_MESSAGE == "Gemini server error. Retrying..."
EXHAUSTED_MESSAGE ==
    "Maximum retries exhausted. The remote Gemini server failed to respond. Please try again later."

\* an event of the underlying run, and the two error events of the agent;
\* the error of a retrying event is the exception of the attempt it follows
RunEvent(attempt) == [kind |-> "run", attempt |-> attempt]
RetryingEvent(attempt) ==
    [kind |-> "error", error_message |-> RETRYING_MESSAGE, attempt |-> attempt]
ExhaustedEvent == [kind |-> "error", error_message |-> EXHAUSTED_MESSAGE, attempt |-> 0]

\* __init__, lines 12-14: max_retries is any int. The environment decides
\* for each attempt of the underlying run whether it raises.
MaxRetriesArgs == (-1)..MaxRetries
FailurePatterns == [1..MaxRetries -> BOOLEAN]
AgentInit ==
    /\ InitOf(Requests, {[given |-> FALSE, uris |-> {}]}, {<<>>})
    /\ lookup = Unused
    /\ client = Unused
    /\ builder = Unused
    /\ \E n \in MaxRetriesArgs, fails \in FailurePatterns :
          agent = [pc |-> "idle", max_retries |-> n, fails |-> fails, retries_left |-> 0,
                   attempts |-> 0, yielded |-> 0, events |-> <<>>]

\* _run_async_impl, lines 42-47: the run delegates to _retry_async with
\* retries_left = self._max_retries
RunAsyncImpl ==
    /\ agent.pc = "idle"
    /\ agent' = [agent EXCEPT !.pc = "check", !.retries_left = agent.max_retries]
    /\ UNCHANGED << pipelineVars, lookup, client, builder >>

\* faulty variant of RetryAsync: the run is given up only below zero
RetryAsyncBelowZero ==
    /\ agent.pc = "check"
    /\ IF agent.retries_left < 0
       THEN agent' = [agent EXCEPT !.pc = "done", !.events = Append(@, ExhaustedEvent)]
       ELSE agent' = [agent EXCEPT !.pc = "attempt", !.attempts = @ + 1, !.yielded = 0]
    /\ UNCHANGED << pipelineVars, lookup, client, builder >>

\* _retry_async, lines 19-30: with no retries left the exhausted event is
\* yielded and the generator ends; otherwise the underlying run is started
RetryAsync ==
    /\ agent.pc = "check"
    /\ IF agent.retries_left <= 0
       THEN agent' = [agent EXCEPT !.pc = "done", !.events = Append(@, ExhaustedEvent)]
       ELSE agent' = [agent EXCEPT !.pc = "attempt", !.attempts = @ + 1, !.yielded = 0]
    /\ UNCHANGED << pipelineVars, lookup, client, builder >>

\* lines 30-31: an event of the underlying run is passed on
UnderlyingYield ==
    /\ agent.pc = "attempt"
    /\ agent.yielded < MaxRunEvents
    /\ agent' = [agent EXCEPT !.yielded = @ + 1,
                              !.events = Append(@, RunEvent(agent.attempts))]
    /\ UNCHANGED << pipelineVars, lookup, client, builder >>

\* line 30: the underlying run ends normally, and with it the generator
UnderlyingReturn ==
    /\ agent.pc = "attempt"
    /\ ~agent.fails[agent.attempts]
    /\ agent' = [agent EXCEPT !.pc = "done"]
    /\ UNCHANGED << pipelineVars, lookup, client, builder >>

\* lines 32-40: the underlying run raises an Exception; the retrying event
\* is yielded and _retry_async is entered with one retry less
UnderlyingRaise ==
    /\ agent.pc = "attempt"
    /\ agent.fails[agent.attempts]
    /\ agent' = [agent EXCEPT !.pc = "check", !.retries_left = @ - 1,
                              !.events = Append(@, RetryingEvent(agent.attempts))]
    /\ UNCHANGED << pipelineVars, lookup, client, builder >>

AgentNext ==
    \/ RunAsyncImpl
    \/ RetryAsync
    \/ UnderlyingYield
    \/ UnderlyingReturn
    \/ UnderlyingRaise

\* the consumer iterates the generator to its end, and an attempt of the
\* underlying run ends, normally or with an exception
AgentSpec == AgentInit /\ [][AgentNext]_vars /\ WF_vars(AgentNext)

TypeOK ==
    /\ \A r \in reqs : pc[r] \in {"start", "log_parts", "extensions", "gate", "updater",
                                   "resolve", "lookup", "handler", "except", "done"}

(* ============================== properties ============================ *)
\* the extension negotiation of request r has run (line 80 has returned)
Negotiated(r) ==
    pc[r] \notin {"start", "log_parts", "extensions"} /\ raised[r] # LogSinkError

\* the gate of lines 82-94 has been evaluated for request r
GateEvaluated(r) == Negotiated(r) /\ pc[r] # "gate"

\* the indices of the registered tools that carry the name
ToolsNamed(name) == { i \in 1..Len(tools) : tools[i] = name }
RegisteredNames == { tools[i] : i \in 1..Len(tools) }

\* the k-th data part of the message of request r, counted in message order
DataIndices(r) ==
    { i \in 1..Len(ctx[r].message.parts) : ctx[r].message.parts[i].kind = "data" }
KthData(r, k) ==
    LET i == CHOOSE j \in DataIndices(r) :
                 Cardinality({ m \in DataIndices(r) : m <= j }) = k
    IN  ctx[r].message.parts[i].data

\* the first payload of request r under the payment-mandate key is p
FirstMandateIs(r, p) ==
    \E i \in 1..Len(data_parts[r]) :
        /\ PAYMENT_MANDATE_DATA_KEY \in DOMAIN data_parts[r][i]
        /\ data_parts[r][i][PAYMENT_MANDATE_DATA_KEY] = p
        /\ \A j \in 1..(i - 1) : PAYMENT_MANDATE_DATA_KEY \notin DOMAIN data_parts[r][j]

\* some payload of request r under the payment-mandate key is an object
\* whose authorization claim is null
CarriesNullAuthorization(r) ==
    \E i \in 1..Len(data_parts[r]) :
        /\ PAYMENT_MANDATE_DATA_KEY \in DOMAIN data_parts[r][i]
        /\ data_parts[r][i][PAYMENT_MANDATE_DATA_KEY].json = "object"
        /\ data_parts[r][i][PAYMENT_MANDATE_DATA_KEY].user_authorization = None

NullAuthorizationMandate ==
    [json |-> "object", has_contents |-> TRUE, user_authorization |-> None]
SignedMandate ==
    [json |-> "object", has_contents |-> TRUE, user_authorization |-> "sig123"]

(* ---- C1 ---- *)
\* C1: whenever the payment extension URI is not in the activated set after
\* negotiation, execute ends by raising the negotiation error, and neither
\* the capability resolver nor any handler has been called, whatever the
\* message carries.
C1_NoResolutionWithoutExtension ==
    \A r \in reqs :
        (Negotiated(r) /\ EXTENSION_URI \notin ctx[r].activated_extensions)
            => /\ resolverCalls[r] = <<>>
               /\ invoked[r] = <<>>
               /\ events[r] = <<>>
               /\ pc[r] \in {"gate", "done"}
               /\ (pc[r] = "done" => raised[r] = NegotiationError)

\* C1 witness: a request with a signed mandate and a text, whose payment
\* extension was not activated, has ended with the negotiation error.
C1_Witness ==
    \E r \in reqs :
        /\ pc[r] = "done"
        /\ raised[r] = NegotiationError
        /\ EXTENSION_URI \notin ctx[r].activated_extensions
        /\ FirstMandateIs(r, SignedMandate)
        /\ text_parts[r] # <<>>

(* ---- C2 ---- *)
\* C2 as stated: every request whose message carries a payload under the
\* payment-mandate key with a null authorization claim ends with the
\* authorization error of validate_payment_mandate_signature and invokes no
\* handler (requests stopped by a failing log sink set aside).
C2_Original ==
    \A r \in reqs :
        (pc[r] = "done" /\ raised[r] # LogSinkError /\ CarriesNullAuthorization(r))
            => (raised[r] = AuthorizationError /\ invoked[r] = <<>>)

\* C2 amended: when the payment extension is activated and the first
\* payload under the payment-mandate key deserializes into the mandate
\* schema and has a null authorization claim, execute raises the
\* authorization error and neither the resolver nor a handler is called.
C2_NullAuthorizationRejected ==
    \A r \in reqs :
        ( /\ GateEvaluated(r)
          /\ EXTENSION_URI \in ctx[r].activated_extensions
          /\ FirstMandateIs(r, NullAuthorizationMandate) )
            => /\ pc[r] = "done"
               /\ raised[r] = AuthorizationError
               /\ resolverCalls[r] = <<>>
               /\ invoked[r] = <<>>

\* C2 witness: such a request, with a signed mandate later in the message,
\* has been rejected.
C2_Witness ==
    \E r \in reqs :
        /\ pc[r] = "done"
        /\ EXTENSION_URI \in ctx[r].activated_extensions
        /\ FirstMandateIs(r, NullAuthorizationMandate)
        /\ Len(data_parts[r]) = 2
        /\ data_parts[r][2] = (PAYMENT_MANDATE_DATA_KEY :> SignedMandate)
        /\ raised[r] = AuthorizationError

(* ---- C3 ---- *)
\* C3: every error of the pre-dispatch stages (negotiation, mandate schema,
\* mandate authorization) is reported as a failed task with a text message
\* through the updater, and execute never raises to its caller.
C3_PreDispatchErrorsReported ==
    \A r \in reqs :
        pc[r] = "done"
            => /\ raised[r] \notin {NegotiationError, SchemaError, AuthorizationError}
               /\ (MandateGate(ctx[r].activated_extensions, data_parts[r]) # NoExc
                     /\ raised[r] # LogSinkError)
                    => (\E i \in 1..Len(events[r]) : events[r][i].state = "failed")

(* ---- C4 ---- *)
\* C4: a request never has both a completed and a failed update, and a
\* request whose handler raised has no completed update.
C4_NoPartialSuccess ==
    \A r \in reqs :
        /\ ~ ( InState(events[r], "completed") # <<>> /\ InState(events[r], "failed") # <<>> )
        /\ (pc[r] = "done" /\ caught[r] = HandlerError)
              => InState(events[r], "completed") = <<>>

(* ---- C5 ---- *)
\* C5: when execute has ended, on whichever path, the request has exactly
\* one terminal update, completed or failed (requests stopped by a failing
\* log sink set aside).
C5_ExactlyOneTerminal ==
    \A r \in reqs :
        (pc[r] = "done" /\ raised[r] # LogSinkError)
            => Len(InState(events[r], "completed")) + Len(InState(events[r], "failed")) = 1

(* ---- C6 ---- *)
\* C6: after _handle_extensions has run, the activated set of the request
\* context is exactly the requested URIs that the server supports; no URI
\* outside the supported set and none outside the requested set is in it.
C6_ActivatedIsIntersection ==
    \A r \in reqs :
        Negotiated(r)
            => \A u \in URIs :
                  u \in ctx[r].activated_extensions
                      <=> (u \in ctx[r].requested_extensions /\ u \in supported_extension_uris)

\* C6 witness: a request that asked for two extensions of which the server
\* supports one has that one activated.
C6_Witness ==
    \E r \in reqs :
        /\ Negotiated(r)
        /\ ctx[r].requested_extensions = URIs
        /\ supported_extension_uris = {EXTENSION_URI}
        /\ ctx[r].activated_extensions = {EXTENSION_URI}

(* ---- C7 ---- *)
\* C7: whatever the classification backend answers, the name that
\* determine_tool_to_use returns is a registered tool name or "Unknown",
\* and never the empty string.
C7_ResolvedNameRegisteredOrUnknown ==
    \A r \in reqs :
        tool_name[r] # None
            => /\ tool_name[r] \in RegisteredNames \cup {UNKNOWN}
               /\ tool_name[r] # EMPTY_NAME

(* ---- C8 ---- *)
\* C8: once the lookup has run with a resolved name that exactly one
\* registered tool carries, that tool's handler has been invoked exactly
\* once, with all data parts of the message in message order, the updater
\* of the request and the prior task, and no other handler was invoked.
C8_SingleMatchInvokedOnce ==
    \A r \in reqs :
        ( /\ pc[r] \in {"handler", "except", "done"}
          /\ tool_name[r] # None
          /\ Cardinality(ToolsNamed(tool_name[r])) = 1 )
            => /\ Len(invoked[r]) = 1
               /\ invoked[r][1].tool \in ToolsNamed(tool_name[r])
               /\ Len(invoked[r][1].data_parts) = Cardinality(DataIndices(r))
               /\ \A k \in 1..Len(invoked[r][1].data_parts) :
                     invoked[r][1].data_parts[k] = KthData(r, k)
               /\ updater[r].created
               /\ invoked[r][1].task_id = updater[r].task_id
               /\ invoked[r][1].context_id = updater[r].context_id
               /\ invoked[r][1].current_task = ctx[r].current_task

\* C8 witness: with two differently named tools registered, the second
\* one was resolved and invoked with two data parts and a prior task.
C8_Witness ==
    \E r \in reqs :
        /\ pc[r] = "done"
        /\ Len(tools) = 2
        /\ tools[1] # tools[2]
        /\ tool_name[r] = tools[2]
        /\ Len(invoked[r]) = 1
        /\ invoked[r][1].tool = 2
        /\ Len(invoked[r][1].data_parts) = 2
        /\ invoked[r][1].data_parts[1] # invoked[r][1].data_parts[2]
        /\ invoked[r][1].current_task # None

(* ---- C9 ---- *)
\* C9: when the resolved name is carried by no registered tool or by more
\* than one, no handler is invoked and the request ends with one failed
\* update, emitted by the dispatcher, and execute returns normally.
C9_NoUniqueMatchFails ==
    \A r \in reqs :
        (tool_name[r] # None /\ Cardinality(ToolsNamed(tool_name[r])) # 1)
            => /\ invoked[r] = <<>>
               /\ pc[r] \in {"lookup", "except", "done"}
               /\ pc[r] = "done"
                    => /\ raised[r] = NoExc
                       /\ Len(events[r]) = 1
                       /\ events[r][1].state = "failed"
                       /\ events[r][1].by = "dispatcher"

\* C9 witness: two tools registered under the same name, that name was
\* resolved, and the request has ended as a failed task.
C9_Witness ==
    \E r \in reqs :
        /\ pc[r] = "done"
        /\ tool_name[r] # None
        /\ Cardinality(ToolsNamed(tool_name[r])) = 2
        /\ invoked[r] = <<>>
        /\ Len(events[r]) = 1
        /\ events[r][1].state = "failed"

(* ---- C10 ---- *)
\* C10: whenever _handle_request has caught an error (of the resolver, of
\* the lookup or of the handler) and execute has ended, the dispatcher has
\* emitted exactly one failed update, whose text contains the description
\* of the error, and nothing was raised to the caller.
C10_CaughtErrorsBecomeOneFailedUpdate ==
    \A r \in reqs :
        (pc[r] = "done" /\ caught[r] # NoExc)
            => /\ raised[r] = NoExc
               /\ Len(ByDispatcher(events[r])) = 1
               /\ ByDispatcher(events[r])[1].state = "failed"
               /\ ByDispatcher(events[r])[1].text = <<"An error occurred: ">> \o caught[r].msg

(* ---- C11 ---- *)
\* C11 as stated: for any registered tool list, once the resolver has
\* returned the sentinel "Unknown" no handler is ever invoked.
C11_Original ==
    \A r \in reqs : tool_name[r] = UNKNOWN => invoked[r] = <<>>

\* C11 amended: for any registered tool list in which no tool is named
\* "Unknown", once the resolver has returned the sentinel "Unknown" the
\* lookup fails with "Expected 1 tool matching Unknown, got 0", no handler
\* is invoked, and the request ends with exactly one update, a failed one
\* from the dispatcher that carries this text; execute does not raise.
C11_UnknownFailsUnlessRegistered ==
    \A r \in reqs :
        (tool_name[r] = UNKNOWN /\ ToolsNamed(UNKNOWN) = {})
            => /\ invoked[r] = <<>>
               /\ pc[r] \in {"lookup", "except", "done"}
               /\ (pc[r] # "lookup" => caught[r] = LookupError(UNKNOWN, 0))
               /\ (pc[r] = "done"
                     => /\ Len(events[r]) = 1
                        /\ events[r][1].state = "failed"
                        /\ events[r][1].by = "dispatcher"
                        /\ events[r][1].text = ErrorText(LookupError(UNKNOWN, 0))
                        /\ raised[r] = NoExc)

\* C11 witness: with two registered tools, none named "Unknown", a request
\* resolved to "Unknown" has ended with the failed update.
C11_Witness ==
    \E r \in reqs :
        /\ Len(tools) = 2
        /\ ToolsNamed(UNKNOWN) = {}
        /\ tool_name[r] = UNKNOWN
        /\ pc[r] = "done"
        /\ invoked[r] = <<>>
        /\ Len(events[r]) = 1
        /\ events[r][1].state = "failed"

(* ---- C12 ---- *)
\* some payload of request r under the payment-mandate key is an object
\* that lacks the required contents or whose authorization claim is null
CarriesInvalidMandate(r) ==
    \E i \in 1..Len(data_parts[r]) :
        /\ PAYMENT_MANDATE_DATA_KEY \in DOMAIN data_parts[r][i]
        /\ data_parts[r][i][PAYMENT_MANDATE_DATA_KEY].json = "object"
        /\ \/ ~data_parts[r][i][PAYMENT_MANDATE_DATA_KEY].has_contents
           \/ data_parts[r][i][PAYMENT_MANDATE_DATA_KEY].user_authorization = None

\* C12 as stated: with the payment extension activated, if any data part
\* carries under the payment-mandate key a payload that does not
\* deserialize or lacks its authorization claim, the request has failed at
\* the gate and no handler is invoked.
C12_Original ==
    \A r \in reqs :
        ( /\ GateEvaluated(r)
          /\ EXTENSION_URI \in ctx[r].activated_extensions
          /\ CarriesInvalidMandate(r) )
            => /\ pc[r] = "done"
               /\ raised[r] \in {SchemaError, AuthorizationError}
               /\ invoked[r] = <<>>

\* C12 amended: with the payment extension activated, when the first
\* payload under the payment-mandate key is an object that lacks the
\* required contents, execute raises the schema error; when it has them
\* and its authorization claim is null, execute raises the authorization
\* error; in both cases neither the resolver nor a handler is called.
C12_FirstMandateValidated ==
    \A r \in reqs :
        \A p \in MandateValues :
            ( /\ GateEvaluated(r)
              /\ EXTENSION_URI \in ctx[r].activated_extensions
              /\ FirstMandateIs(r, p)
              /\ p.json = "object"
              /\ (~p.has_contents \/ p.user_authorization = None) )
                => /\ pc[r] = "done"
                   /\ raised[r] = (IF p.has_contents THEN AuthorizationError
                                   ELSE SchemaError)
                   /\ resolverCalls[r] = <<>>
                   /\ invoked[r] = <<>>
                   /\ events[r] = <<>>

\* C12 witness: a request whose first mandate lacks the required contents
\* and whose second mandate is signed has ended with the schema error.
C12_Witness ==
    \E r \in reqs :
        /\ pc[r] = "done"
        /\ EXTENSION_URI \in ctx[r].activated_extensions
        /\ Len(data_parts[r]) = 2
        /\ ~data_parts[r][1][PAYMENT_MANDATE_DATA_KEY].has_contents
        /\ data_parts[r][1][PAYMENT_MANDATE_DATA_KEY].json = "object"
        /\ data_parts[r][2] = (PAYMENT_MANDATE_DATA_KEY :> SignedMandate)
        /\ raised[r] = SchemaError

(* ---- C13 ---- *)
\* C13: within one request the stages run in the order parse, negotiate,
\* gate, resolve, dispatch. Once execute has passed line 77 the parts are
\* the parsed message; a gate error was decided on the negotiated set; the
\* resolver has been called only with the negotiation done, the gate passed
\* on that set and the updater created; a handler has been invoked only
\* after the resolver returned the name it carries; and updates are emitted
\* only after the resolver was called.
C13_StagesInOrder ==
    \A r \in reqs :
        /\ pc[r] # "start"
              => /\ text_parts[r] = _parse_request(ctx[r].message).text_parts
                 /\ data_parts[r] = _parse_request(ctx[r].message).data_parts
        /\ pc[r] \in {"start", "log_parts", "extensions"}
              => /\ ctx[r].activated_extensions = {}
                 /\ ~updater[r].created
                 /\ resolverCalls[r] = <<>>
        /\ raised[r] \in {NegotiationError, SchemaError, AuthorizationError}
              => /\ ctx[r].activated_extensions =
                        ctx[r].requested_extensions \cap supported_extension_uris
                 /\ raised[r] = MandateGate(ctx[r].activated_extensions, data_parts[r])
                 /\ ~updater[r].created
        /\ resolverCalls[r] # <<>>
              => /\ ctx[r].activated_extensions =
                        ctx[r].requested_extensions \cap supported_extension_uris
                 /\ MandateGate(ctx[r].activated_extensions, data_parts[r]) = NoExc
                 /\ updater[r].created
        /\ tool_name[r] # None => resolverCalls[r] # <<>>
        /\ invoked[r] # <<>>
              => /\ tool_name[r] # None
                 /\ invoked[r][1].name = tool_name[r]
        /\ events[r] # <<>> => resolverCalls[r] # <<>>

\* C13 witness: a request has gone through every stage; its handler was
\* invoked and has returned.
C13_Witness ==
    \E r \in reqs :
        /\ pc[r] = "done"
        /\ data_parts[r] # <<>>
        /\ text_parts[r] # <<>>
        /\ Len(resolverCalls[r]) = 1
        /\ Len(invoked[r]) = 1
        /\ caught[r] = NoExc

(* ---- C14 ---- *)
\* C14: a failure of the watch-log sink never fails a request: no request
\* ends because the log file handler could not be attached, and no request
\* stops before its extension negotiation.
C14_LogSinkFailureHarmless ==
    \A r \in reqs :
        /\ raised[r] # LogSinkError
        /\ pc[r] = "done" => Negotiated(r)

(* ---- C15 ---- *)
\* what request q owns: its context, the locals of its execute call, its
\* updater and what it has emitted
PerRequest(q) ==
    << pc[q], ctx[q], text_parts[q], data_parts[q], updater[q], events[q],
       resolverCalls[q], tool_name[q], invoked[q], caught[q], raised[q] >>

NoMandateKey(r) ==
    \A i \in 1..Len(data_parts[r]) : PAYMENT_MANDATE_DATA_KEY \notin DOMAIN data_parts[r][i]

\* C16: when the payment extension is activated and no data part carries
\* the payment-mandate key, the gate raises nothing: execute does not end
\* with a negotiation, schema or authorization error, it goes on to create
\* the updater, and once past that the resolver has been called exactly once.
C16_NoMandateNoValidation ==
    \A r \in reqs :
        ( /\ GateEvaluated(r)
          /\ EXTENSION_URI \in ctx[r].activated_extensions
          /\ NoMandateKey(r) )
            => /\ raised[r] \notin {NegotiationError, SchemaError, AuthorizationError}
               /\ pc[r] \in {"updater", "resolve", "lookup", "handler", "except", "done"}
               /\ (pc[r] \notin {"updater", "resolve"} => Len(resolverCalls[r]) = 1)

\* C16 witness: a request with the payment extension activated, whose only
\* data part carries another key, has been resolved and its handler invoked.
C16_Witness ==
    \E r \in reqs :
        /\ EXTENSION_URI \in ctx[r].activated_extensions
        /\ data_parts[r] = << (OTHER_DATA_KEY :> OtherValue) >>
        /\ Len(resolverCalls[r]) = 1
        /\ Len(invoked[r]) = 1
        /\ pc[r] = "done"

(* ---- C17 ---- *)
\* C17: the dispatcher emits no update of its own unless it caught an
\* exception, and then only a failed one: after a matched handler has
\* returned normally every update of the request was emitted by the
\* handler, so a completed update exists only if the handler emitted it.
C17_DispatcherNeverCompletes ==
    \A r \in reqs :
        /\ \A i \in 1..Len(events[r]) :
              events[r][i].by = "dispatcher"
                 => (events[r][i].state = "failed" /\ caught[r] # NoExc)
        /\ (pc[r] = "done" /\ invoked[r] # <<>> /\ caught[r] = NoExc)
              => /\ ByDispatcher(events[r]) = <<>>
                 /\ ByHandler(events[r]) = events[r]
        /\ \A i \in 1..Len(events[r]) :
              events[r][i].state = "completed" => events[r][i].by = "handler"

\* C17 witness: a matched handler has returned normally without reporting
\* anything, and the request has ended with no update at all.
C17_Witness ==
    \E r \in reqs :
        /\ pc[r] = "done"
        /\ Len(invoked[r]) = 1
        /\ caught[r] = NoExc
        /\ raised[r] = NoExc
        /\ events[r] = <<>>

(* ---- C18 ---- *)
\* C18: no step removes a URI from the activated set of a request: in every
\* step the activated set of each request contains what it contained before.
C18_ActivatedOnlyGrows ==
    [][ \A r \in reqs :
            ctx[r].activated_extensions \subseteq ctx'[r].activated_extensions ]_vars

\* C18 witness: a request that activated both extensions has gone through
\* the gate, the resolution and a handler, and still has both activated.
C18_Witness ==
    \E r \in reqs :
        /\ pc[r] = "done"
        /\ ctx[r].activated_extensions = URIs
        /\ Len(invoked[r]) = 1
        /\ events[r] # <<>>

(* ---- C19 ---- *)
\* C19: within one request the classification backend is called at most
\* once and at most one handler invocation takes place; when the backend
\* call or the handler has raised, the request ends with that one call and
\* without a further invocation.
C19_NoRetry ==
    \A r \in reqs :
        /\ Len(resolverCalls[r]) <= 1
        /\ Len(invoked[r]) <= 1
        /\ caught[r] = BackendError
              => (Len(resolverCalls[r]) = 1 /\ invoked[r] = <<>>
                    /\ pc[r] \in {"except", "done"})
        /\ caught[r] = HandlerError
              => (Len(resolverCalls[r]) = 1 /\ Len(invoked[r]) = 1
                    /\ pc[r] \in {"except", "done"})

\* C19 witness: the backend call of a request has raised and the request
\* has ended, failed, after that single call.
C19_Witness ==
    \E r \in reqs :
        /\ pc[r] = "done"
        /\ caught[r] = BackendError
        /\ Len(resolverCalls[r]) = 1
        /\ Len(events[r]) = 1
        /\ events[r][1].state = "failed"

(* ---- C20 ---- *)
\* the k-th text part of the message of request r, counted in message order
TextIndices(r) ==
    { i \in 1..Len(ctx[r].message.parts) : ctx[r].message.parts[i].kind = "text" }
KthText(r, k) ==
    LET i == CHOOSE j \in TextIndices(r) :
                 Cardinality({ m \in TextIndices(r) : m <= j }) = k
    IN  ctx[r].message.parts[i].text

\* C20: once a request is parsed, its text sequence holds exactly the texts
\* of the text parts of the message, in message order, and its data
\* sequence exactly the dicts of the data parts, in message order; a missing
\* message or one without parts gives two empty sequences; parsing the
\* message again gives the same two sequences; and no step changes the
\* message of a request.
C20_ParseIsProjection ==
    /\ [](\A r \in reqs :
            pc[r] # "start"
              => /\ Len(text_parts[r]) = Cardinality(TextIndices(r))
                 /\ \A k \in 1..Len(text_parts[r]) : text_parts[r][k] = KthText(r, k)
                 /\ Len(data_parts[r]) = Cardinality(DataIndices(r))
                 /\ \A k \in 1..Len(data_parts[r]) : data_parts[r][k] = KthData(r, k)
                 /\ (~ctx[r].message.present \/ ctx[r].message.parts = <<>>)
                       => (text_parts[r] = <<>> /\ data_parts[r] = <<>>)
                 /\ _parse_request(ctx[r].message) =
                       [text_parts |-> text_parts[r], data_parts |-> data_parts[r]])
    /\ [][ \A r \in reqs : pc[r] # "start" => ctx'[r].message = ctx[r].message ]_vars

\* C20 witness: a message of two different texts with a data part between
\* them has been parsed into the two texts, in that order, and the one dict.
C20_Witness ==
    \E r \in reqs :
        /\ pc[r] = "done"
        /\ Len(ctx[r].message.parts) = 3
        /\ ctx[r].message.parts[1] = TextPart(<<" ", "b", " ">>)
        /\ ctx[r].message.parts[2].kind = "data"
        /\ ctx[r].message.parts[3] = TextPart(<<"a">>)
        /\ text_parts[r] = << <<" ", "b", " ">>, <<"a">> >>
        /\ data_parts[r] = << ctx[r].message.parts[2].data >>

(* ---- C21 ---- *)
\* C21: for every max_retries >= 1, the default included, an agent run
\* that has given up after an attempt raised has run the underlying run
\* again at least once after the first retrying event: it has made at least
\* two attempts.
C21_RetriesAtLeastOnce ==
    ( /\ agent.pc = "done"
      /\ agent.max_retries >= 1
      /\ RetryingEvent(1) \in { agent.events[i] : i \in 1..Len(agent.events) }
      /\ agent.events[Len(agent.events)] = ExhaustedEvent )
        => agent.attempts >= 2

(* ---- C22 ---- *)
\* C22: when a request has ended whose negotiation activated a non-empty
\* set of URIs, the watch log holds, under the heading "[A2A Extensions
\* Activated in the Request]", exactly the URIs activated for that request.
C22_ActivatedExtensionsLogged ==
    \A r \in reqs :
        (pc[r] = "done" /\ Negotiated(r) /\ ctx[r].activated_extensions # {})
            => \E i \in 1..Len(watchLog) :
                  /\ watchLog[i].heading = "[A2A Extensions Activated in the Request]"
                  /\ watchLog[i].extensions = ctx[r].activated_extensions

(* ---- C23 ---- *)
\* the positions of the searched data parts whose dict contains the key
KeyIndices == { i \in 1..Len(lookup.data_parts) : lookup.data_key \in DOMAIN lookup.data_parts[i] }
KthKeyIndex(k) ==
    CHOOSE j \in KeyIndices : Cardinality({ m \in KeyIndices : m <= j }) = k

\* C23 as stated: find_data_part returns None only when no data part
\* contains the key.
C23_Original ==
    (lookup.pc = "ready" /\ lookup.part_called /\ lookup.part = NotFound)
        => KeyIndices = {}

\* C23 amended: find_data_part returns the value of the first data part
\* that contains the key, which may itself be None, and None when no data
\* part contains the key; find_data_parts returns the values of all data
\* parts containing the key, in their order; and whenever that list is not
\* empty its first element is what find_data_part returns.
C23_FirstAndAllValues ==
    lookup.pc = "ready"
        => /\ lookup.part_called
                => lookup.part =
                      (IF KeyIndices = {} THEN NotFound
                       ELSE lookup.data_parts[KthKeyIndex(1)][lookup.data_key])
           /\ lookup.parts_called
                => /\ Len(lookup.parts) = Cardinality(KeyIndices)
                   /\ \A k \in 1..Len(lookup.parts) :
                         lookup.parts[k] = lookup.data_parts[KthKeyIndex(k)][lookup.data_key]
           /\ (lookup.part_called /\ lookup.parts_called /\ lookup.parts # <<>>)
                => lookup.part = lookup.parts[1]

\* C23 witness: among two data parts that both contain the key, with
\* different values, both functions have been applied.
C23_Witness ==
    /\ lookup.pc = "ready"
    /\ lookup.part_called
    /\ lookup.parts_called
    /\ Len(lookup.parts) = 2
    /\ lookup.parts[1] # lookup.parts[2]
    /\ lookup.part = lookup.parts[1]

(* ---- C24 ---- *)
\* what the failure pattern and max_retries give: the index of the first
\* attempt that does not raise (0: there is none), and the attempts due
FirstSuccess ==
    LET ok == { i \in 1..MaxRetries : ~agent.fails[i] }
    IN  IF ok = {} THEN 0 ELSE CHOOSE i \in ok : \A j \in ok : i <= j
AttemptsDue ==
    IF agent.max_retries <= 0 THEN 0
    ELSE IF FirstSuccess = 0 \/ FirstSuccess > agent.max_retries THEN agent.max_retries
         ELSE FirstSuccess
Succeeded == agent.max_retries >= 1 /\ FirstSuccess # 0 /\ FirstSuccess <= agent.max_retries
EventIndices(e) == { i \in 1..Len(agent.events) : agent.events[i] = e }

IsStripped(s, t) ==
    /\ s # <<>> => (s[1] # " " /\ s[Len(s)] # " ")
    /\ \E i \in 1..(Len(t) + 1) :
          /\ \A j \in 1..(i - 1) : t[j] = " "
          /\ \A j \in (i + Len(s))..Len(t) : t[j] = " "
          /\ \A j \in 1..Len(s) : t[i + j - 1] = s[j]
          /\ i + Len(s) - 1 <= Len(t)

\* C25: the resolver is called with one prompt: the text of the first text
\* part of the message without the whitespace at its ends, or the empty
\* string when the message has no text part; no later text part enters it.
C25_PromptIsFirstTextStripped ==
    \A r \in reqs :
        resolverCalls[r] # <<>>
            => /\ Len(resolverCalls[r]) = 1
               /\ IF TextIndices(r) = {}
                  THEN resolverCalls[r][1] = <<>>
                  ELSE IsStripped(resolverCalls[r][1], KthText(r, 1))

\* C25 witness: the resolver was called with "c d" for a message whose
\* first text part is " c d" and whose later text part is "a".
C25_Witness ==
    \E r \in reqs :
        /\ pc[r] = "done"
        /\ Len(text_parts[r]) = 2
        /\ KthText(r, 1) = <<" ", "c", " ", "d">>
        /\ KthText(r, 2) = <<"a">>
        /\ resolverCalls[r] = << <<"c", " ", "d">> >>

(* ---- C26 ---- *)
\* C26: a request has a TaskUpdater only once its gate has passed on the
\* negotiated set; the updater carries the task_id and the context_id of
\* the request where supplied and a generated id, different from every
\* supplied one, where not; once created it is never replaced; and every
\* update of the request and every handler invocation carries its ids.
C26_OneUpdaterWithRequestIds ==
    /\ [](\A r \in reqs :
            /\ updater[r].created
                  => /\ GateEvaluated(r)
                     /\ MandateGate(ctx[r].activated_extensions, data_parts[r]) = NoExc
                     /\ IF ctx[r].task_id # None
                        THEN updater[r].task_id = ctx[r].task_id
                        ELSE updater[r].task_id \notin {None, "task-1"}
                     /\ IF ctx[r].context_id # None
                        THEN updater[r].context_id = ctx[r].context_id
                        ELSE updater[r].context_id \notin {None, "ctx-1"}
            /\ ~updater[r].created => (events[r] = <<>> /\ invoked[r] = <<>>)
            /\ \A i \in 1..Len(events[r]) :
                  /\ events[r][i].task_id = updater[r].task_id
                  /\ events[r][i].context_id = updater[r].context_id
            /\ \A i \in 1..Len(invoked[r]) :
                  /\ invoked[r][i].task_id = updater[r].task_id
                  /\ invoked[r][i].context_id = updater[r].context_id)
    /\ [][ \A r \in reqs :
             updater[r].created
                => /\ updater'[r].created
                   /\ updater'[r].task_id = updater[r].task_id
                   /\ updater'[r].context_id = updater[r].context_id ]_vars

\* C26 witness: a request that supplied a task_id and no context_id has
\* ended after two updates, both under its task_id and the generated
\* context id.
C26_Witness ==
    \E r \in reqs :
        /\ pc[r] = "done"
        /\ ctx[r].task_id = "task-1"
        /\ ctx[r].context_id = None
        /\ Len(events[r]) = 2
        /\ \A i \in 1..2 : events[r][i].task_id = "task-1"
        /\ \A i \in 1..2 : events[r][i].context_id = FreshContextId(r)

\* the calls that invoked the card resolver
Resolving(ids) == { i \in ids : client.calls[i].contacted # "no" }
\* call i has passed the cache check of line 56
PastCheck(i) == client.calls[i].pc \notin {"idle", "check"}

\* C27: over calls of get_agent_card and send_a2a_message made one after the
\* other on one client, the resolver is not invoked again after its first
\* success: every later call gets the cached card without contacting the
\* peer; a resolution that raises leaves the cache empty, and the next call
\* resolves again.
C27_ResolvedOnceAndCached ==
    /\ client.resolver_calls = Cardinality(Resolving(SequentialCalls))
    /\ Cardinality({ i \in SequentialCalls : client.calls[i].contacted = "ok" }) <= 1
    /\ (client.agent_card = None)
          <=> (\A i \in SequentialCalls : client.calls[i].contacted # "ok")
    /\ \A i, j \in SequentialCalls :
          (i < j /\ client.calls[i].contacted = "ok")
             => /\ client.calls[j].contacted = "no"
                /\ PastCheck(j) => client.calls[j].card = client.calls[i].card
                /\ client.agent_card = client.calls[i].card
    /\ \A i, j \in SequentialCalls :
          (j = i + 1 /\ client.calls[i].contacted = "raised" /\ PastCheck(j))
             => client.calls[j].contacted # "no"
    /\ \A i \in SequentialCalls :
          (client.calls[i].pc = "done" /\ client.calls[i].op = "get_agent_card"
              /\ client.calls[i].raised = NoExc)
             => client.calls[i].returned = client.calls[i].card

\* C27 witness: the first resolution raised, the second call resolved the
\* card and the third call returned that card from the cache.
C27_Witness ==
    /\ client.pc = "ready"
    /\ client.calls[1].contacted = "raised"
    /\ client.calls[2].contacted = "ok"
    /\ client.calls[3].pc = "done"
    /\ client.calls[3].op = "get_agent_card"
    /\ client.calls[3].contacted = "no"
    /\ client.calls[3].returned = client.calls[2].card
    /\ client.resolver_calls = 2

\* C28: for every interleaving of concurrent get_agent_card and
\* send_a2a_message calls on one client, suspended at the awaited
\* resolution, at most one resolution that does not raise is started and
\* every caller that obtained a card obtained the same one.
C28_ResolvedOnceForAll ==
    /\ Cardinality({ c \in ConcurrentCalls :
                        client.calls[c].contacted \in {"pending", "ok"} }) <= 1
    /\ \A c, d \in ConcurrentCalls :
          (client.calls[c].card # None /\ client.calls[d].card # None)
             => client.calls[c].card = client.calls[d].card

\* the task a ClientTaskManager holds after the events of a stream
RECURSIVE AccumulatedTask(_)
AccumulatedTask(evs) ==
    IF evs = <<>> THEN NoTask
    ELSE IF evs[Len(evs)].kind = "tuple" THEN evs[Len(evs)].task
    ELSE AccumulatedTask(SubSeq(evs, 1, Len(evs) - 1))

\* C29: send_a2a_message processes the events of the response stream in
\* arrival order; when it returns, every event has been processed and the
\* result is the task accumulated from them, never None; when the whole
\* stream held no task it raises RuntimeError.
C29_StreamProcessedBeforeReturn ==
    \A c \in StreamCalls :
        client.calls[c].op = "send_a2a_message"
           => /\ Len(client.calls[c].processed) <= Len(client.calls[c].stream)
              /\ client.calls[c].processed
                    = SubSeq(client.calls[c].stream, 1, Len(client.calls[c].processed))
              /\ client.calls[c].pc = "streaming"
                    => client.calls[c].processed \o client.calls[c].remaining
                          = client.calls[c].stream
              /\ (client.calls[c].pc = "done" /\ client.calls[c].raised = NoExc)
                    => /\ client.calls[c].processed = client.calls[c].stream
                       /\ client.calls[c].result # NoTask
                       /\ client.calls[c].result = AccumulatedTask(client.calls[c].stream)
              /\ client.calls[c].raised # NoExc => client.calls[c].result = NoTask
              /\ (client.calls[c].pc = "done" /\ client.calls[c].card # None
                     /\ client.calls[c].processed = client.calls[c].stream
                     /\ AccumulatedTask(client.calls[c].stream) = NoTask)
                    => client.calls[c].raised = NoResponseError

\* C29 witness: a stream of a Message and a Task was processed to its end and
\* the Task was returned.
C29_Witness ==
    \E c \in StreamCalls :
        /\ client.calls[c].pc = "done"
        /\ client.calls[c].op = "send_a2a_message"
        /\ client.calls[c].stream
              = << MessageEvent, TupleEvent([id |-> "t1", state |-> "completed"]) >>
        /\ client.calls[c].processed = client.calls[c].stream
        /\ client.calls[c].result = [id |-> "t1", state |-> "completed"]
        /\ client.calls[c].raised = NoExc

\* the parts the calls cs account for: one text part per add_text, one data
\* part per add_data with non-empty data; with completed, only per add_data
\* call that returned
RECURSIVE PartsPerCall(_, _)
PartsPerCall(cs, completed) ==
    IF cs = <<>> THEN <<>>
    ELSE LET call == cs[Len(cs)]
             before == PartsPerCall(SubSeq(cs, 1, Len(cs) - 1), completed)
         IN IF call.op = "add_text"
            THEN Append(before, TextPartOf(call.data.text))
            ELSE IF /\ call.op = "add_data"
                    /\ ~IsEmptyData(call.data)
                    /\ (completed => call.raised = NoExc)
            THEN Append(before, DataPartOf(IF call.key # ""
                                           THEN Dict({ << call.key, call.data >> })
                                           ELSE call.data))
            ELSE before

\* C30 as stated: the parts of the built message are, in call order, one text
\* part per add_text call and one data part per add_data call with non-empty
\* data.
C30_Original ==
    builder.message.parts = PartsPerCall(builder.calls, FALSE)

\* C30: the parts of the built message are, in call order, one text part per
\* add_text call and one data part per add_data call with non-empty data
\* that returned, holding {key: data} when a key is given and the data
\* itself otherwise; only an add_data call with a non-empty str and no key
\* can raise; a call that raises, an add_data call with empty data and build
\* leave the message unchanged; set_context_id and set_task_id change only
\* their own field.
C30_PartsPerCallInOrder ==
    /\ [](/\ builder.message.parts = PartsPerCall(builder.calls, TRUE)
          /\ \A i \in 1..Len(builder.calls) :
                builder.calls[i].raised # NoExc
                   => /\ builder.calls[i].op = "add_data"
                      /\ builder.calls[i].key = ""
                      /\ builder.calls[i].data.type = "str"
                      /\ ~IsEmptyData(builder.calls[i].data))
    /\ [][ LET call == builder'.calls[Len(builder'.calls)] IN
             /\ Len(builder'.calls) = Len(builder.calls) + 1
             /\ call.op = "set_context_id"
                   => builder'.message
                         = [builder.message EXCEPT !.context_id = call.data.text]
             /\ call.op = "set_task_id"
                   => builder'.message
                         = [builder.message EXCEPT !.task_id = call.data.text]
             /\ (call.op = "add_data" /\ IsEmptyData(call.data))
                   => builder'.message = builder.message
             /\ call.raised # NoExc => builder'.message = builder.message
             /\ call.op = "build" => builder'.message = builder.message
             /\ call.op \in {"add_text", "add_data"}
                   => builder'.message
                         = [builder.message EXCEPT !.parts = builder'.message.parts]
          ]_vars

\* C30 witness: add_data with a key, add_data with empty data and add_text
\* were called; the message holds the keyed data part and the text part.
C30_Witness ==
    /\ builder.pc = "ready"
    /\ Len(builder.calls) = 3
    /\ builder.calls[1] = BuilderCall("add_data", "k", Str("s"), NoExc)
    /\ builder.calls[2] = BuilderCall("add_data", "", Dict({}), NoExc)
    /\ builder.calls[3] = BuilderCall("add_text", "", Str("hi"), NoExc)
    /\ builder.message.parts
          = << DataPartOf(Dict({ << "k", Str("s") >> })), TextPartOf("hi") >>

====
